---- MODULE Spec2Model ----
(***************************************************************************)
(* A model of griffe's git worktree manager (src/griffe/git.py) and of its *)
(* AST node utilities (src/griffe/node_utils.py).                          *)
(*                                                                         *)
(* The worktree manager is a state machine over the repository (branches,  *)
(* registered worktrees), the filesystem (temporary directories) and one   *)
(* program position per acquisition of tmp_worktree.  Every subprocess     *)
(* call is one step, so that acquisitions interleave at the places where   *)
(* the operating system can interleave them.                               *)
(*                                                                         *)
(* The node utilities are pure functions; they are operators over syntax   *)
(* trees (records with a kind field), applied by the actions of their own  *)
(* specifications to inputs drawn from bounded sets.                       *)
(***************************************************************************)
EXTENDS Integers, Sequences, FiniteSets, TLC

VARIABLES
    \* ---- worktree manager (git.py) ----
    gitInstalled,   \* shutil.which("git") finds an executable
    validRepo,      \* `repo` is inside a git work tree
    branches,       \* the branch names of the repository
    worktrees,      \* the registered worktrees: records [branch, path]
    fsDirs,         \* the temporary directories that exist
    pc,             \* pc[p]: position of acquisition p in tmp_worktree
    ref,            \* ref[p]: the reference acquisition p asks for
    td,             \* td[p]: the temporary directory of p (0: none yet)
    cmds,           \* cmds[p]: the git subcommands p has run, with exit codes
    blockExc,       \* blockExc[p]: what the caller's block raised ("none")
    raised,         \* raised[p]: the error that left the scope ("none")
    \* ---- value renderer round trip (node_utils.py, get_value) ----
    vpc,            \* "input", "rendered", "parsed" or "rerendered"
    vnode,          \* the expression node given to get_value
    vtext,          \* get_value(vnode)
    vparsed,        \* the parse of vtext
    vtext2,         \* get_value(vparsed)
    \* ---- the four dispatch functions (node_utils.py) ----
    dpc,            \* "input" or "called"
    dnode,          \* the node given to the dispatch function
    dfn,            \* the dispatch function called ("" before the call)
    dresult,        \* what the call returned or raised
    \* ---- lazy name resolution (node_utils.py, get_baseclass / get_annotation) ----
    rpc,            \* "input", "extracted" or "resolved"
    rnode,          \* the base class or annotation node
    scope,          \* the parent's scope: identifier -> qualified path
    produced,       \* what the extraction returned
    extractCalls,   \* the calls of parent.resolve made during the extraction
    lastName,       \* the Name whose resolver the consumer invoked last
    lastCalls,      \* the calls of parent.resolve made by that invocation
    lastFull,       \* what that invocation returned
    lastScope,      \* the parent's scope when it was made
    extractScope,   \* the parent's scope when the extraction was made
    \* ---- get_docstring ----
    docpc,          \* "input" or "called"
    docNode,        \* the node given to get_docstring
    docStrict,      \* its strict argument
    docResult,      \* what the call returned or raised
    \* ---- get_parameter_default ----
    defpc,          \* "input" or "called"
    defNode,        \* the default node, or None
    defLines,       \* lines_collection[filepath]: the lines of the file
    defResult       \* what the call returned or raised, and the lines it read

wtVars == <<gitInstalled, validRepo, branches, worktrees, fsDirs, pc, ref, td,
            cmds, blockExc, raised>>

valVars == <<vpc, vnode, vtext, vparsed, vtext2>>

dispVars == <<dpc, dnode, dfn, dresult>>

resVars == <<rpc, rnode, scope, produced, extractCalls, lastName, lastCalls, lastFull,
             lastScope, extractScope>>

docVars == <<docpc, docNode, docStrict, docResult>>

defVars == <<defpc, defNode, defLines, defResult>>

vars == <<wtVars, valVars, dispVars, resVars, docVars, defVars>>

\* What the steps of one component leave alone: the other components.
notWtVars == <<valVars, dispVars, resVars, docVars, defVars>>
notValVars == <<wtVars, dispVars, resVars, docVars, defVars>>
notDispVars == <<wtVars, valVars, resVars, docVars, defVars>>
notResVars == <<wtVars, valVars, dispVars, docVars, defVars>>
notDocVars == <<wtVars, valVars, dispVars, resVars, defVars>>
notDefVars == <<wtVars, valVars, dispVars, resVars, docVars>>

-----------------------------------------------------------------------------
(* Bounds *)

\* The number of acquisitions of tmp_worktree that may be in flight.
NumProcs == 2

Procs == 1..NumProcs

\* The references a caller asks for.  "a b" stands for a reference with
\* special characters: it is one argv element, never split by a shell.
Refs == {"HEAD", "a b"}

\* What the caller's block may raise.
BlockErrors == {"ValueError"}


-----------------------------------------------------------------------------
(* Worktree manager: src/griffe/git.py *)

NoError == [type |-> "none", msg |-> ""]

\* git.py:87  uid = f"griffe_{ref}"
Uid(r) == "griffe_" \o r

\* One entry of the log of subprocess calls: the subcommand, its argument
\* (the identifier, "" when it takes none), its exit code and what it wrote
\* on stderr.
Cmd(name, arg, rc, stderr) == [cmd |-> name, arg |-> arg, rc |-> rc, stderr |-> stderr]

WtStart ==
    /\ gitInstalled \in BOOLEAN
    /\ validRepo \in BOOLEAN
    /\ branches \in SUBSET {Uid(r) : r \in Refs}
    /\ worktrees = {}
    /\ fsDirs = {}
    /\ pc = [p \in Procs |-> "closed"]
    /\ ref \in [Procs -> Refs]
    /\ td = [p \in Procs |-> 0]
    /\ cmds = [p \in Procs |-> <<>>]
    /\ blockExc = [p \in Procs |-> "none"]
    /\ raised = [p \in Procs |-> NoError]

\* A variant of the executable check that never raises: the probe runs even
\* when shutil.which finds nothing.
AssertGitExecutableSkipped(p) ==
    /\ pc[p] = "closed"
    /\ pc' = [pc EXCEPT ![p] = "probe"]
    /\ UNCHANGED <<notWtVars, gitInstalled, validRepo, branches, worktrees, fsDirs, ref, td,
                   cmds, blockExc, raised>>

\* git.py:31-32  _assert_git_repo: the executable check.
AssertGitExecutable(p) ==
    /\ pc[p] = "closed"
    /\ IF gitInstalled
       THEN /\ pc' = [pc EXCEPT ![p] = "probe"]
            /\ UNCHANGED raised
       ELSE /\ pc' = [pc EXCEPT ![p] = "done"]
            /\ raised' = [raised EXCEPT ![p] =
                 [type |-> "RuntimeError", msg |-> "Could not find git executable. Please install git."]]
    /\ UNCHANGED <<notWtVars, gitInstalled, validRepo, branches, worktrees, fsDirs, ref, td,
                   cmds, blockExc>>

\* git.py:34-42  _assert_git_repo: `git -C repo rev-parse --is-inside-work-tree`
\* with check=True; CalledProcessError becomes OSError.
AssertGitRepo(p) ==
    /\ pc[p] = "probe"
    /\ LET rc == IF validRepo THEN 0 ELSE 128 IN
       /\ cmds' = [cmds EXCEPT ![p] = Append(@, Cmd("rev-parse", "", rc, ""))]
       /\ IF rc = 0
          THEN /\ pc' = [pc EXCEPT ![p] = "mktemp"]
               /\ UNCHANGED raised
          ELSE /\ pc' = [pc EXCEPT ![p] = "done"]
               /\ raised' = [raised EXCEPT ![p] =
                    [type |-> "OSError", msg |-> "Not a git repository"]]
    /\ UNCHANGED <<notWtVars, gitInstalled, validRepo, branches, worktrees, fsDirs, ref, td,
                   blockExc>>

\* A directory name no other acquisition is given (tempfile never hands out
\* an existing name): the directories are numbered by acquisition.
FreshDir(p) == p

\* git.py:86  with TemporaryDirectory(prefix="griffe-worktree-") as td
EnterTemporaryDirectory(p) ==
    /\ pc[p] = "mktemp"
    /\ td' = [td EXCEPT ![p] = FreshDir(p)]
    /\ fsDirs' = fsDirs \cup {FreshDir(p)}
    /\ pc' = [pc EXCEPT ![p] = "add"]
    /\ UNCHANGED <<notWtVars, gitInstalled, validRepo, branches, worktrees, ref, cmds,
                   blockExc, raised>>

\* A variant of `worktree add` whose return code is not looked at: the
\* caller's block is entered whatever git answered.
WorktreeAddUnchecked(p) ==
    /\ pc[p] = "add"
    /\ \E knownRef \in BOOLEAN :
         LET diag == IF Uid(ref[p]) \in branches
                     THEN "fatal: a branch named '" \o Uid(ref[p]) \o "' already exists"
                     ELSE IF ~knownRef THEN "fatal: invalid reference: " \o ref[p]
                     ELSE ""
             rc == IF diag = "" THEN 0 ELSE 128
         IN
         /\ cmds' = [cmds EXCEPT ![p] = Append(@, Cmd("worktree add", Uid(ref[p]), rc, diag))]
         /\ branches' = IF rc = 0 THEN branches \cup {Uid(ref[p])} ELSE branches
         /\ worktrees' = IF rc = 0
                         THEN worktrees \cup {[branch |-> Uid(ref[p]), path |-> td[p]]}
                         ELSE worktrees
         /\ pc' = [pc EXCEPT ![p] = "open"]
    /\ UNCHANGED <<notWtVars, gitInstalled, validRepo, fsDirs, ref, td, blockExc, raised>>

\* A variant of `worktree add` that passes -B instead of -b: git resets a
\* branch that exists and is checked out in no worktree, and the call
\* succeeds.
WorktreeAddForce(p) ==
    /\ pc[p] = "add"
    /\ \E knownRef \in BOOLEAN :
         LET diag == IF \E w \in worktrees : w.branch = Uid(ref[p])
                     THEN "fatal: '" \o Uid(ref[p]) \o "' is already checked out"
                     ELSE IF ~knownRef THEN "fatal: invalid reference: " \o ref[p]
                     ELSE ""
             rc == IF diag = "" THEN 0 ELSE 128
         IN
         /\ cmds' = [cmds EXCEPT ![p] = Append(@, Cmd("worktree add", Uid(ref[p]), rc, diag))]
         /\ IF rc = 0
            THEN /\ branches' = branches \cup {Uid(ref[p])}
                 /\ worktrees' = worktrees \cup {[branch |-> Uid(ref[p]), path |-> td[p]]}
                 /\ pc' = [pc EXCEPT ![p] = "open"]
                 /\ UNCHANGED <<fsDirs, raised>>
            ELSE /\ raised' = [raised EXCEPT ![p] =
                      [type |-> "RuntimeError", msg |-> "Could not create git worktree: " \o diag]]
                 /\ fsDirs' = fsDirs \ {td[p]}
                 /\ pc' = [pc EXCEPT ![p] = "done"]
                 /\ UNCHANGED <<branches, worktrees>>
    /\ UNCHANGED <<notWtVars, gitInstalled, validRepo, ref, td, blockExc>>

\* git.py:89-94  `git -C repo worktree add -b uid target ref`.  git refuses
\* to create a branch that exists; it may also fail for its own reasons (an
\* unknown reference).  A failure raises RuntimeError with git's stderr, and
\* the exception leaves the `with TemporaryDirectory` block, which removes
\* the directory.
WorktreeAdd(p) ==
    /\ pc[p] = "add"
    /\ \E knownRef \in BOOLEAN :
         LET diag == IF Uid(ref[p]) \in branches
                     THEN "fatal: a branch named '" \o Uid(ref[p]) \o "' already exists"
                     ELSE IF ~knownRef THEN "fatal: invalid reference: " \o ref[p]
                     ELSE ""
             rc == IF diag = "" THEN 0 ELSE 128
         IN
         /\ cmds' = [cmds EXCEPT ![p] = Append(@, Cmd("worktree add", Uid(ref[p]), rc, diag))]
         /\ IF rc = 0
            THEN /\ branches' = branches \cup {Uid(ref[p])}
                 /\ worktrees' = worktrees \cup {[branch |-> Uid(ref[p]), path |-> td[p]]}
                 /\ pc' = [pc EXCEPT ![p] = "open"]
                 /\ UNCHANGED <<fsDirs, raised>>
            ELSE /\ raised' = [raised EXCEPT ![p] =
                      [type |-> "RuntimeError", msg |-> "Could not create git worktree: " \o diag]]
                 /\ fsDirs' = fsDirs \ {td[p]}
                 /\ pc' = [pc EXCEPT ![p] = "done"]
                 /\ UNCHANGED <<branches, worktrees>>
    /\ UNCHANGED <<notWtVars, gitInstalled, validRepo, ref, td, blockExc>>

\* git.py:96-97  yield Path(target): the caller's block runs, and returns or
\* raises.
CallerBlock(p) ==
    /\ pc[p] = "open"
    /\ \E e \in {"none"} \cup BlockErrors :
         blockExc' = [blockExc EXCEPT ![p] = e]
    /\ pc' = [pc EXCEPT ![p] = "remove"]
    /\ UNCHANGED <<notWtVars, gitInstalled, validRepo, branches, worktrees, fsDirs, ref, td,
                   cmds, raised>>

\* A variant of the cleanup calls with check=True: a non-zero exit code
\* raises CalledProcessError, which leaves the finally clause.
AfterCleanupChecked(rc, next) == IF rc = 0 THEN next ELSE "exit"

\* What a cleanup subprocess call does with a non-zero exit code: the code
\* passes no check=True, so the exit code is dropped and the next statement
\* runs.
AfterCleanup(rc, next) == next

\* git.py:99  `git -C repo worktree remove uid` in the finally clause.  git
\* refuses to remove a worktree that holds modified or untracked files.
WorktreeRemove(p) ==
    /\ pc[p] = "remove"
    /\ \E rc \in {0, 128} :
         /\ cmds' = [cmds EXCEPT ![p] = Append(@, Cmd("worktree remove", Uid(ref[p]), rc, ""))]
         /\ worktrees' = IF rc = 0
                         THEN {w \in worktrees : w.branch # Uid(ref[p])}
                         ELSE worktrees
         /\ pc' = [pc EXCEPT ![p] = AfterCleanup(rc, "prune")]
    /\ UNCHANGED <<notWtVars, gitInstalled, validRepo, branches, fsDirs, ref, td, blockExc,
                   raised>>

\* git.py:100  `git -C repo worktree prune`: drops the registrations whose
\* directory is gone.
WorktreePrune(p) ==
    /\ pc[p] = "prune"
    /\ \E rc \in {0, 128} :
         /\ cmds' = [cmds EXCEPT ![p] = Append(@, Cmd("worktree prune", "", rc, ""))]
         /\ worktrees' = IF rc = 0
                         THEN {w \in worktrees : w.path \in fsDirs}
                         ELSE worktrees
         /\ pc' = [pc EXCEPT ![p] = AfterCleanup(rc, "branch")]
    /\ UNCHANGED <<notWtVars, gitInstalled, validRepo, branches, fsDirs, ref, td, blockExc,
                   raised>>

\* git.py:101  `git -C repo branch -d uid`: git refuses to delete a branch
\* that is checked out in a worktree, and, with -d, one that is not merged.
BranchDelete(p) ==
    /\ pc[p] = "branch"
    /\ \E merged \in BOOLEAN :
         LET deletable == /\ merged
                          /\ Uid(ref[p]) \in branches
                          /\ \A w \in worktrees : w.branch # Uid(ref[p])
             rc == IF deletable THEN 0 ELSE 1
         IN /\ cmds' = [cmds EXCEPT ![p] = Append(@, Cmd("branch -d", Uid(ref[p]), rc, ""))]
            /\ branches' = IF rc = 0 THEN branches \ {Uid(ref[p])} ELSE branches
            /\ pc' = [pc EXCEPT ![p] = AfterCleanup(rc, "exit")]
    /\ UNCHANGED <<notWtVars, gitInstalled, validRepo, worktrees, fsDirs, ref, td, blockExc,
                   raised>>

\* A variant in which a failed cleanup subcommand raises, and its error
\* replaces the one of the caller's block.
ScopeErrorFromCleanup(p) ==
    IF \E i \in 3..Len(cmds[p]) : cmds[p][i].rc # 0
    THEN [type |-> "CalledProcessError", msg |-> ""]
    ELSE IF blockExc[p] = "none" THEN NoError ELSE [type |-> blockExc[p], msg |-> ""]

\* git.py:96-101  the error that leaves the try/finally: the one the caller's
\* block raised, if it raised one.  No statement of the finally clause raises
\* on a non-zero exit code.
ScopeError(p) ==
    IF blockExc[p] = "none" THEN NoError ELSE [type |-> blockExc[p], msg |-> ""]

\* git.py:86, 98  the finally clause is over: what the block raised is raised
\* again, and leaving the `with TemporaryDirectory` block removes the
\* directory.
ExitTemporaryDirectory(p) ==
    /\ pc[p] = "exit"
    /\ fsDirs' = fsDirs \ {td[p]}
    /\ raised' = [raised EXCEPT ![p] = ScopeError(p)]
    /\ pc' = [pc EXCEPT ![p] = "done"]
    /\ UNCHANGED <<notWtVars, gitInstalled, validRepo, branches, worktrees, ref, td, cmds,
                   blockExc>>

\* git.py:69-101  tmp_worktree, one step of one acquisition.
tmp_worktree(p) ==
    \/ AssertGitExecutable(p)
    \/ AssertGitRepo(p)
    \/ EnterTemporaryDirectory(p)
    \/ WorktreeAdd(p)
    \/ CallerBlock(p)
    \/ WorktreeRemove(p)
    \/ WorktreePrune(p)
    \/ BranchDelete(p)
    \/ ExitTemporaryDirectory(p)

WtStep == \E p \in Procs : tmp_worktree(p)

\* No acquisition of tmp_worktree is made.
WtIdle ==
    /\ gitInstalled = TRUE
    /\ validRepo = TRUE
    /\ branches = {}
    /\ worktrees = {}
    /\ fsDirs = {}
    /\ pc = [p \in Procs |-> "closed"]
    /\ ref = [p \in Procs |-> "HEAD"]
    /\ td = [p \in Procs |-> 0]
    /\ cmds = [p \in Procs |-> <<>>]
    /\ blockExc = [p \in Procs |-> "none"]
    /\ raised = [p \in Procs |-> NoError]


-----------------------------------------------------------------------------
(* Properties of the worktree manager *)

\* The subcommands acquisition p has run, without exit codes.
CmdNames(p) == [i \in 1..Len(cmds[p]) |-> <<cmds[p][i].cmd, cmds[p][i].arg>>]

\* `worktree add` of acquisition p exited with 0: the worktree was created.
Opened(p) == \E i \in 1..Len(cmds[p]) : cmds[p][i].cmd = "worktree add" /\ cmds[p][i].rc = 0

\* `worktree add` of acquisition p exited with a non-zero code.
AddFailed(p) == \E i \in 1..Len(cmds[p]) : cmds[p][i].cmd = "worktree add" /\ cmds[p][i].rc # 0

\* The caller's block of acquisition p has been left (it returned or raised).
BlockLeft(p) == Opened(p) /\ pc[p] # "open"

\* The three cleanup subcommands of acquisition p, in the order of the code.
CleanupCmds(p) == << <<"worktree remove", Uid(ref[p])>>,
                     <<"worktree prune", "">>,
                     <<"branch -d", Uid(ref[p])>> >>

\* What p has run after `worktree add`.
AfterAdd(p) == SubSeq(CmdNames(p), 3, Len(cmds[p]))

IsPrefix(s, t) == Len(s) <= Len(t) /\ s = SubSeq(t, 1, Len(s))

\* C1: once the worktree is open, what runs after the caller's block is a
\* prefix of <<worktree remove uid, worktree prune, branch -d uid>>, in this
\* order; the next one runs whatever the exit code of the one before, and
\* when the scope has closed all three have run.
C1_CleanupRunsFully ==
    \A p \in Procs :
        /\ IsPrefix(AfterAdd(p), CleanupCmds(p))
        /\ (BlockLeft(p) /\ pc[p] = "prune") => Len(AfterAdd(p)) = 1
        /\ (BlockLeft(p) /\ pc[p] = "branch") => Len(AfterAdd(p)) = 2
        /\ (BlockLeft(p) /\ pc[p] \in {"exit", "done"}) => AfterAdd(p) = CleanupCmds(p)

\* The block raised, `worktree remove` and `worktree prune` failed, and
\* `branch -d` was still invoked before the scope closed.
C1_Witness ==
    \E p \in Procs :
        /\ pc[p] = "done" /\ blockExc[p] # "none"
        /\ Len(cmds[p]) = 5
        /\ cmds[p][3].rc # 0 /\ cmds[p][4].rc # 0
        /\ cmds[p][5].cmd = "branch -d"

\* C2: after the scope of an acquisition that opened has closed, its
\* temporary directory and its branch griffe_<ref> are gone (no other
\* acquisition having created anything).
C2_ScopeClosedRemovesAll ==
    \A p \in Procs :
        (pc[p] = "done" /\ Opened(p) /\ \A q \in Procs \ {p} : cmds[q] = <<>>)
            => /\ td[p] \notin fsDirs
               /\ Uid(ref[p]) \notin branches

\* C3: a failed precheck has created nothing.  Without the executable,
\* RuntimeError is raised with no subprocess run and no directory allocated;
\* with a failing probe, OSError is raised, the probe being the only
\* subprocess run, and no directory allocated.  No subprocess runs before
\* the executable check has passed, and the block is never entered.
C3_PrecheckFailureCreatesNothing ==
    \A p \in Procs :
        /\ cmds[p] # <<>> => gitInstalled
        /\ (~gitInstalled /\ pc[p] # "closed") =>
              /\ pc[p] = "done" /\ raised[p].type = "RuntimeError"
              /\ cmds[p] = <<>> /\ td[p] = 0 /\ fsDirs = {}
              /\ ~Opened(p) /\ blockExc[p] = "none"
        /\ (gitInstalled /\ ~validRepo /\ pc[p] \notin {"closed", "probe"}) =>
              /\ pc[p] = "done" /\ raised[p].type = "OSError"
              /\ CmdNames(p) = << <<"rev-parse", "">> >> /\ cmds[p][1].rc # 0
              /\ td[p] = 0 /\ fsDirs = {}
              /\ ~Opened(p) /\ blockExc[p] = "none"
        /\ raised[p].type = "OSError" => (gitInstalled /\ ~validRepo)

\* The probe failed and OSError left the scope.
C3_Witness ==
    \E p \in Procs :
        /\ pc[p] = "done" /\ raised[p].type = "OSError"
        /\ Len(cmds[p]) = 1 /\ cmds[p][1].rc # 0

\* C4: the block is entered only after both prechecks passed and `worktree
\* add -b uid` exited with 0.  When it exits non-zero, RuntimeError with
\* git's stderr is raised, the block is never entered, no cleanup subcommand
\* runs, and the temporary directory is gone.
C4_OpenOnlyAfterAdd ==
    \A p \in Procs :
        /\ (pc[p] \in {"open", "remove", "prune", "branch", "exit"} \/ blockExc[p] # "none") =>
              /\ gitInstalled /\ validRepo
              /\ Len(cmds[p]) >= 2
              /\ cmds[p][1].cmd = "rev-parse" /\ cmds[p][1].rc = 0
              /\ cmds[p][2] = Cmd("worktree add", Uid(ref[p]), 0, "")
        /\ AddFailed(p) =>
              /\ pc[p] = "done"
              /\ Len(cmds[p]) = 2
              /\ raised[p] = [type |-> "RuntimeError",
                              msg |-> "Could not create git worktree: " \o cmds[p][2].stderr]
              /\ cmds[p][2].stderr # ""
              /\ blockExc[p] = "none"
              /\ td[p] # 0 /\ td[p] \notin fsDirs

\* `worktree add` failed on an unknown reference.
C4_Witness ==
    \E p \in Procs :
        /\ AddFailed(p) /\ pc[p] = "done"
        /\ Uid(ref[p]) \notin branches

\* C5: no exit code of a cleanup subcommand is raised.  Once the scope of an
\* opened acquisition has closed, the error that left it is the one the
\* block raised, and none if the block returned.
C5_CleanupFailureNotRaised ==
    \A p \in Procs :
        (pc[p] = "done" /\ Opened(p)) =>
            /\ blockExc[p] = "none" => raised[p] = NoError
            /\ blockExc[p] # "none" => raised[p] = [type |-> blockExc[p], msg |-> ""]

\* The block returned normally, all three cleanup subcommands failed, and
\* the scope closed without error.
C5_Witness ==
    \E p \in Procs :
        /\ pc[p] = "done" /\ Opened(p) /\ blockExc[p] = "none"
        /\ \A i \in 3..5 : cmds[p][i].rc # 0
        /\ raised[p] = NoError

\* Acquisition p takes the step.
StepOf(p) == pc'[p] # pc[p]

\* The registration `worktree add` of acquisition p creates.
OwnRegistration(p) == [branch |-> Uid(ref[p]), path |-> td[p]]

\* `worktree add` of p, run while the branch griffe_<ref> exists, fails:
\* RuntimeError is raised, the scope closes, and no branch or registration
\* changes.
CollisionFails(p) ==
    (pc[p] = "add" /\ Uid(ref[p]) \in branches) =>
        /\ pc'[p] = "done"
        /\ raised'[p].type = "RuntimeError"
        /\ cmds'[p][Len(cmds'[p])].cmd = "worktree add"
        /\ cmds'[p][Len(cmds'[p])].rc # 0
        /\ branches' = branches
        /\ worktrees' = worktrees

\* An acquisition whose `worktree add` failed has run nothing after it.
NoCleanupAfterFailedAdd == \A p \in Procs : AddFailed(p) => AfterAdd(p) = <<>>

\* While the block of an acquisition runs, and until its own cleanup
\* starts, its branch, its registration and its directory exist.
OwnerIntact ==
    \A q \in Procs :
        pc[q] \in {"open", "remove"} =>
            /\ Uid(ref[q]) \in branches
            /\ OwnRegistration(q) \in worktrees
            /\ td[q] \in fsDirs

-----------------------------------------------------------------------------
(* Python values and text, as node_utils.py uses them *)

\* A text (a Python str) is a sequence of characters.  The fixed texts of
\* the renderers:
S_none == <<"N", "o", "n", "e">>
S_comma == <<",", " ">>
S_colon == <<":", " ">>
S_for == <<"f", "o", "r", " ">>
S_in == <<" ", "i", "n", " ">>
S_if == <<" ", "i", "f", " ">>
S_else == <<" ", "e", "l", "s", "e", " ">>
S_async == <<"a", "s", "y", "n", "c", " ">>
S_lambda == <<"l", "a", "m", "b", "d", "a", " ">>
S_not == <<"n", "o", "t", " ">>
S_or == <<" ", "o", "r", " ">>
S_and == <<" ", "a", "n", "d", " ">>
S_noteq == <<"!", "=">>
S_ellipsis == <<".", ".", ".">>

Digits == <<"0", "1", "2", "3", "4", "5", "6", "7", "8", "9">>

IsDigit(c) == \E d \in 1..10 : Digits[d] = c

DigitValue(c) == (CHOOSE d \in 1..10 : Digits[d] = c) - 1

Letters == {"a", "b", "c", "e", "f", "g", "l", "n", "o", "s", "x", "N", "T"}

\* The Python values of the model: None, integers and strings.
PyNone == [t |-> "NoneType"]
PyInt(n) == [t |-> "int", n |-> n]
PyStr(s) == [t |-> "str", s |-> s]

\* str.join: the texts of `texts` with `sep` between them.
RECURSIVE Join(_, _)
Join(texts, sep) ==
    IF texts = <<>> THEN <<>>
    ELSE IF Len(texts) = 1 THEN texts[1]
    ELSE texts[1] \o sep \o Join(Tail(texts), sep)

\* repr of a non-negative int: its decimal digits.
RECURSIVE IntRepr(_)
IntRepr(n) == IF n < 10 THEN <<Digits[n + 1]>> ELSE IntRepr(n \div 10) \o <<Digits[(n % 10) + 1]>>

\* repr of a str without backslashes: in single quotes, or in double quotes
\* when it holds a single quote and no double quote.
StrRepr(s) ==
    LET has(c) == \E i \in 1..Len(s) : s[i] = c
        q == IF has("'") /\ ~has("\"") THEN "\"" ELSE "'"
    IN <<q>> \o s \o <<q>>

\* repr(value), as _get_constant_value and get_parameter_default call it.
Repr(v) ==
    CASE v.t = "NoneType" -> S_none
      [] v.t = "int" -> IF v.n < 0 THEN <<"-">> \o IntRepr(0 - v.n) ELSE IntRepr(v.n)
      [] v.t = "str" -> StrRepr(v.s)

\* str.strip(chars): the text without its leading and trailing characters
\* that are in `chars`.
Strip(s, chars) ==
    LET keep == {i \in 1..Len(s) : s[i] \notin chars}
        Min(S) == CHOOSE i \in S : \A j \in S : i <= j
        Max(S) == CHOOSE i \in S : \A j \in S : i >= j
    IN IF keep = {} THEN <<>> ELSE SubSeq(s, Min(keep), Max(keep))

\* s[a:b] of Python, for 0 <= a and 0 <= b: the characters at the 0-based
\* indexes a <= i < b that exist.
Slice(s, a, b) ==
    LET hi == IF b < Len(s) THEN b ELSE Len(s)
    IN IF a >= hi THEN <<>> ELSE SubSeq(s, a + 1, hi)

-----------------------------------------------------------------------------
(* Syntax trees.  A node is a record; its field kind is its exact class
   (type(node)), and the other fields are those of the ast class. *)

NoneNode == [kind |-> "NoneType"]
Name(id) == [kind |-> "Name", id |-> id]
Constant(v) == [kind |-> "Constant", value |-> v]
Attribute(value, attr) == [kind |-> "Attribute", value |-> value, attr |-> attr]
Subscript(value, slice) == [kind |-> "Subscript", value |-> value, slice |-> slice]
BinOp(left, op, right) == [kind |-> "BinOp", left |-> left, op |-> op, right |-> right]
UnaryOp(op, operand) == [kind |-> "UnaryOp", op |-> op, operand |-> operand]
BoolOp(op, values) == [kind |-> "BoolOp", op |-> op, values |-> values]
Compare(left, ops, comparators) ==
    [kind |-> "Compare", left |-> left, ops |-> ops, comparators |-> comparators]
Op(kind) == [kind |-> kind]
List(elts) == [kind |-> "List", elts |-> elts]
Tuple(elts) == [kind |-> "Tuple", elts |-> elts]
Set(elts) == [kind |-> "Set", elts |-> elts]
Dict(keys, values) == [kind |-> "Dict", keys |-> keys, values |-> values]
Call(func, args, keywords) == [kind |-> "Call", func |-> func, args |-> args, keywords |-> keywords]
Keyword(arg, value) == [kind |-> "keyword", arg |-> arg, value |-> value]
SliceNode(lower, upper, step) == [kind |-> "Slice", lower |-> lower, upper |-> upper, step |-> step]
Starred(value) == [kind |-> "Starred", value |-> value]
FormattedValue(value) == [kind |-> "FormattedValue", value |-> value]
JoinedStr(values) == [kind |-> "JoinedStr", values |-> values]
IfExp(test, body, orelse) == [kind |-> "IfExp", test |-> test, body |-> body, orelse |-> orelse]
Lambda(args, body) == [kind |-> "Lambda", args |-> args, body |-> body]
Arguments(args) == [kind |-> "arguments", args |-> args]
Arg(arg) == [kind |-> "arg", arg |-> arg]
Comprehension(target, iter, ifs, is_async) ==
    [kind |-> "comprehension", target |-> target, iter |-> iter, ifs |-> ifs, is_async |-> is_async]
GeneratorExp(elt, generators) == [kind |-> "GeneratorExp", elt |-> elt, generators |-> generators]
ListComp(elt, generators) == [kind |-> "ListComp", elt |-> elt, generators |-> generators]
DictComp(key, value, generators) ==
    [kind |-> "DictComp", key |-> key, value |-> value, generators |-> generators]

\* bool(node) for a field that holds a node or None.
Truthy(node) == node.kind # "NoneType"

\* The outcome of a call: a value, or an exception that propagates.
Ok(v) == [ok |-> TRUE, val |-> v]
KeyError(kind) == [ok |-> FALSE, exc |-> "KeyError", key |-> kind]

\* The outcomes of the calls made in order, each on one child.
AllOk(rs) == \A i \in 1..Len(rs) : rs[i].ok
FirstRaised(rs) == rs[CHOOSE i \in 1..Len(rs) : ~rs[i].ok /\ \A j \in 1..(i - 1) : rs[j].ok]
Vals(rs) == [i \in 1..Len(rs) |-> rs[i].val]

\* The value built from the children's values, unless a call on a child
\* raised: then the first exception raised propagates.
Build(rs, v) == IF AllOk(rs) THEN Ok(v) ELSE FirstRaised(rs)

-----------------------------------------------------------------------------
(* The value renderer: node_utils.py, get_value and its handlers.  The
   children are rendered in the order in which Python evaluates the calls. *)

RECURSIVE get_value(_)

\* [get_value(el) for el in nodes]
ValuesOf(nodes) == [i \in 1..Len(nodes) |-> get_value(nodes[i])]

\* f"{x}" of a str or None.
Format(v) == IF v.t = "NoneType" THEN S_none ELSE v.s

_get_name_value(node) == Ok(node.id)

_get_constant_value(node) == Ok(Repr(node.value))

_get_attribute_value(node) ==
    LET rs == <<get_value(node.value)>>
    IN Build(rs, rs[1].val \o <<".">> \o node.attr)

_get_binop_value(node) ==
    LET rs == <<get_value(node.left), get_value(node.op), get_value(node.right)>>
    IN Build(rs, rs[1].val \o <<" ">> \o rs[2].val \o <<" ">> \o rs[3].val)

_get_bitor_value(node) == Ok(<<"|">>)

_get_mult_value(node) == Ok(<<"*">>)

_get_unaryop_value(node) ==
    LET rs == <<get_value(node.op), get_value(node.operand)>>
    IN Build(rs, rs[1].val \o rs[2].val)

_get_usub_value(node) == Ok(<<"-">>)

_get_uadd_value(node) == Ok(<<"+">>)

_get_not_value(node) == Ok(S_not)

_get_slice_value(node) ==
    LET lower == IF Truthy(node.lower) THEN get_value(node.lower) ELSE Ok(<<>>)
        upper == IF Truthy(node.upper) THEN get_value(node.upper) ELSE Ok(<<>>)
        step == IF Truthy(node.step) THEN get_value(node.step) ELSE Ok(<<>>)
        rs == <<lower, upper, step>>
    IN Build(rs, lower.val \o <<":">> \o upper.val
                 \o (IF Truthy(node.step) THEN <<":">> \o step.val ELSE <<>>))

_get_subscript_value(node) ==
    LET rs == <<get_value(node.value), get_value(node.slice)>>
    IN Build(rs, rs[1].val \o <<"[">> \o Strip(rs[2].val, {"(", ")"}) \o <<"]">>)

_get_arguments_value(node) ==
    Ok(Join([i \in 1..Len(node.args) |-> node.args[i].arg], S_comma))

_get_lambda_value(node) ==
    LET rs == <<get_value(node.args), get_value(node.body)>>
    IN Build(rs, S_lambda \o rs[1].val \o S_colon \o rs[2].val)

_get_list_value(node) ==
    LET rs == ValuesOf(node.elts)
    IN Build(rs, <<"[">> \o Join(Vals(rs), S_comma) \o <<"]">>)

_get_tuple_value(node) ==
    LET rs == ValuesOf(node.elts)
    IN Build(rs, <<"(">> \o Join(Vals(rs), S_comma) \o <<")">>)

_get_keyword_value(node) ==
    LET rs == <<get_value(node.value)>>
    IN Build(rs, Format(node.arg) \o <<"=">> \o rs[1].val)

\* zip(node.keys, node.values), a key before its value.
_get_dict_value(node) ==
    LET n == IF Len(node.keys) < Len(node.values) THEN Len(node.keys) ELSE Len(node.values)
        key(i) == IF node.keys[i].kind = "NoneType" THEN Ok(S_none) ELSE get_value(node.keys[i])
        rs == [j \in 1..(2 * n) |->
                 IF j % 2 = 1 THEN key((j + 1) \div 2) ELSE get_value(node.values[j \div 2])]
        pairs == [i \in 1..n |-> rs[2 * i - 1].val \o S_colon \o rs[2 * i].val]
    IN Build(rs, <<"{">> \o Join(pairs, S_comma) \o <<"}">>)

_get_set_value(node) ==
    LET rs == ValuesOf(node.elts)
    IN Build(rs, <<"{">> \o Join(Vals(rs), S_comma) \o <<"}">>)

_get_ellipsis_value(node) == Ok(S_ellipsis)

_get_starred_value(node) == get_value(node.value)

_get_formatted_value(node) ==
    LET rs == <<get_value(node.value)>>
    IN Build(rs, <<"{">> \o rs[1].val \o <<"}">>)

_get_joinedstr_value(node) ==
    LET rs == ValuesOf(node.values)
    IN Build(rs, Join(Vals(rs), <<>>))

_get_boolop_value(node) ==
    LET rs == <<get_value(node.op)>> \o ValuesOf(node.values)
    IN Build(rs, Join(Tail(Vals(rs)), rs[1].val))

_get_or_value(node) == Ok(S_or)

_get_and_value(node) == Ok(S_and)

_get_compare_value(node) ==
    LET nops == Len(node.ops)
        ncmp == Len(node.comparators)
        n == IF nops < ncmp THEN nops ELSE ncmp
        rs == <<get_value(node.left)>> \o ValuesOf(node.ops) \o ValuesOf(node.comparators)
        pairs == [i \in 1..n |-> rs[1 + i].val \o <<" ">> \o rs[1 + nops + i].val]
    IN Build(rs, rs[1].val \o <<" ">> \o Join(pairs, <<" ">>))

_get_noteq_value(node) == Ok(S_noteq)

_get_generatorexp_value(node) ==
    LET rs == <<get_value(node.elt)>> \o ValuesOf(node.generators)
    IN Build(rs, rs[1].val \o <<" ">> \o Join(Tail(Vals(rs)), <<" ">>))

_get_listcomp_value(node) ==
    LET rs == <<get_value(node.elt)>> \o ValuesOf(node.generators)
    IN Build(rs, <<"[">> \o rs[1].val \o <<" ">> \o Join(Tail(Vals(rs)), <<" ">>) \o <<"]">>)

_get_dictcomp_value(node) ==
    LET rs == <<get_value(node.key), get_value(node.value)>> \o ValuesOf(node.generators)
    IN Build(rs, <<"{">> \o rs[1].val \o S_colon \o rs[2].val \o <<" ">>
                 \o Join(Tail(Tail(Vals(rs))), <<" ">>) \o <<"}">>)

_get_comprehension_value(node) ==
    LET rs == <<get_value(node.target), get_value(node.iter)>> \o ValuesOf(node.ifs)
        conditions == Tail(Tail(Vals(rs)))
        value == S_for \o rs[1].val \o S_in \o rs[2].val
        value2 == IF conditions # <<>> THEN value \o S_if \o Join(conditions, S_if) ELSE value
    IN Build(rs, IF node.is_async THEN S_async \o value2 ELSE value2)

_get_ifexp_value(node) ==
    LET rs == <<get_value(node.body), get_value(node.test), get_value(node.orelse)>>
    IN Build(rs, rs[1].val \o S_if \o rs[2].val \o S_else \o rs[3].val)

_get_call_value(node) ==
    LET nargs == Len(node.args)
        rs == ValuesOf(node.args) \o ValuesOf(node.keywords) \o <<get_value(node.func)>>
        posargs == Join(SubSeq(Vals(rs), 1, nargs), S_comma)
        kwargs == Join(SubSeq(Vals(rs), nargs + 1, Len(rs) - 1), S_comma)
        args == IF posargs # <<>> /\ kwargs # <<>> THEN posargs \o S_comma \o kwargs
                ELSE IF posargs # <<>> THEN posargs
                ELSE IF kwargs # <<>> THEN kwargs
                ELSE <<>>
    IN Build(rs, rs[Len(rs)].val \o <<"(">> \o args \o <<")">>)

\* The keys of _node_value_map, on Python 3.9 and later (ast.Index is
\* registered only before 3.9).
_node_value_map ==
    {"NoneType", "Name", "Constant", "Attribute", "BinOp", "UnaryOp", "Ellipsis",
     "Subscript", "List", "Tuple", "keyword", "Dict", "Set", "FormattedValue",
     "JoinedStr", "Call", "Slice", "BoolOp", "GeneratorExp", "comprehension",
     "Compare", "NotEq", "BitOr", "Mult", "ListComp", "Lambda", "DictComp",
     "Starred", "IfExp", "Or", "And", "USub", "UAdd", "Not", "arguments"}

\* _node_value_map[kind](node)
ValueHandler(kind, node) ==
    CASE kind = "NoneType" -> Ok(S_none)
      [] kind = "Name" -> _get_name_value(node)
      [] kind = "Constant" -> _get_constant_value(node)
      [] kind = "Attribute" -> _get_attribute_value(node)
      [] kind = "BinOp" -> _get_binop_value(node)
      [] kind = "UnaryOp" -> _get_unaryop_value(node)
      [] kind = "Ellipsis" -> _get_ellipsis_value(node)
      [] kind = "Subscript" -> _get_subscript_value(node)
      [] kind = "List" -> _get_list_value(node)
      [] kind = "Tuple" -> _get_tuple_value(node)
      [] kind = "keyword" -> _get_keyword_value(node)
      [] kind = "Dict" -> _get_dict_value(node)
      [] kind = "Set" -> _get_set_value(node)
      [] kind = "FormattedValue" -> _get_formatted_value(node)
      [] kind = "JoinedStr" -> _get_joinedstr_value(node)
      [] kind = "Call" -> _get_call_value(node)
      [] kind = "Slice" -> _get_slice_value(node)
      [] kind = "BoolOp" -> _get_boolop_value(node)
      [] kind = "GeneratorExp" -> _get_generatorexp_value(node)
      [] kind = "comprehension" -> _get_comprehension_value(node)
      [] kind = "Compare" -> _get_compare_value(node)
      [] kind = "NotEq" -> _get_noteq_value(node)
      [] kind = "BitOr" -> _get_bitor_value(node)
      [] kind = "Mult" -> _get_mult_value(node)
      [] kind = "ListComp" -> _get_listcomp_value(node)
      [] kind = "Lambda" -> _get_lambda_value(node)
      [] kind = "DictComp" -> _get_dictcomp_value(node)
      [] kind = "Starred" -> _get_starred_value(node)
      [] kind = "IfExp" -> _get_ifexp_value(node)
      [] kind = "Or" -> _get_or_value(node)
      [] kind = "And" -> _get_and_value(node)
      [] kind = "USub" -> _get_usub_value(node)
      [] kind = "UAdd" -> _get_uadd_value(node)
      [] kind = "Not" -> _get_not_value(node)
      [] kind = "arguments" -> _get_arguments_value(node)

\* A variant that looks the handler up with a default: a node of a class
\* that is no key renders as the empty text.
get_value_default(node) ==
    IF node.kind \in _node_value_map
    THEN ValueHandler(node.kind, node)
    ELSE Ok(<<>>)

\* _node_value_map[type(node)](node): a dict lookup by the exact class, which
\* raises KeyError for a class that is no key.
get_value(node) ==
    IF node.kind \in _node_value_map
    THEN ValueHandler(node.kind, node)
    ELSE KeyError(node.kind)

-----------------------------------------------------------------------------
(* Python's parser on the text of a literal expression (ast.parse in eval
   mode), for the round trip get_value(parse(get_value(x))): constants,
   names, a minus sign, and list, tuple, set and dict displays.  A
   parenthesised expression without a comma is the expression itself; it is
   a tuple only with a comma, or when the parentheses are empty. *)

\* The character at 1-based position i, "" at the end of the text.
At(s, i) == IF i >= 1 /\ i <= Len(s) THEN s[i] ELSE ""

RECURSIVE SkipSpaces(_, _)
SkipSpaces(s, i) == IF At(s, i) = " " THEN SkipSpaces(s, i + 1) ELSE i

\* The first position at or after i that does not hold a character of `set`.
RECURSIVE ScanWhile(_, _, _)
ScanWhile(s, i, set) == IF At(s, i) \in set THEN ScanWhile(s, i + 1, set) ELSE i

\* The first position at or after i that holds the character c (Len(s) + 1
\* if none does).
RECURSIVE ScanTo(_, _, _)
ScanTo(s, i, c) == IF i > Len(s) \/ s[i] = c THEN i ELSE ScanTo(s, i + 1, c)

RECURSIVE DigitsValue(_)
DigitsValue(ds) ==
    IF ds = <<>> THEN 0
    ELSE 10 * DigitsValue(SubSeq(ds, 1, Len(ds) - 1)) + DigitValue(ds[Len(ds)])

DigitChars == {Digits[d] : d \in 1..10}

Parsed(node, pos) == [ok |-> TRUE, node |-> node, pos |-> pos]
SyntaxError == [ok |-> FALSE, exc |-> "SyntaxError"]

RECURSIVE ParseExpr(_, _)
RECURSIVE ParseElts(_, _, _, _, _)
RECURSIVE ParseAfterElt(_, _, _, _, _)
RECURSIVE ParsePairs(_, _, _, _)

\* The elements of a display from position i to the closing character:
\* [ok, elts, comma (a comma was read), pos (after the closing character)].
ParseElts(s, i, close, acc, comma) ==
    LET j == SkipSpaces(s, i) IN
    IF At(s, j) = close THEN [ok |-> TRUE, elts |-> acc, comma |-> comma, pos |-> j + 1]
    ELSE LET e == ParseExpr(s, j) IN
         IF ~e.ok THEN SyntaxError
         ELSE ParseAfterElt(s, e.pos, close, Append(acc, e.node), comma)

\* After an element: a comma and the next elements, or the closing character.
ParseAfterElt(s, i, close, acc, comma) ==
    LET k == SkipSpaces(s, i) IN
    IF At(s, k) = "," THEN ParseElts(s, k + 1, close, acc, TRUE)
    ELSE IF At(s, k) = close THEN [ok |-> TRUE, elts |-> acc, comma |-> comma, pos |-> k + 1]
    ELSE SyntaxError

\* After a value of a dict display: a comma and the next key: value pairs, or
\* the closing brace.
ParsePairs(s, i, keys, values) ==
    LET k == SkipSpaces(s, i) IN
    IF At(s, k) = "}" THEN Parsed(Dict(keys, values), k + 1)
    ELSE IF At(s, k) # "," THEN SyntaxError
    ELSE LET j == SkipSpaces(s, k + 1) IN
         IF At(s, j) = "}" THEN Parsed(Dict(keys, values), j + 1)
         ELSE LET key == ParseExpr(s, j) IN
              IF ~key.ok THEN SyntaxError
              ELSE LET c == SkipSpaces(s, key.pos) IN
                   IF At(s, c) # ":" THEN SyntaxError
                   ELSE LET value == ParseExpr(s, c + 1) IN
                        IF ~value.ok THEN SyntaxError
                        ELSE ParsePairs(s, value.pos, Append(keys, key.node),
                                        Append(values, value.node))

\* The expression that starts at position i.
ParseExpr(s, i) ==
    LET j == SkipSpaces(s, i)
        c == At(s, j)
    IN
    CASE c = "(" ->
           LET r == ParseElts(s, j + 1, ")", <<>>, FALSE) IN
           IF ~r.ok THEN SyntaxError
           ELSE IF Len(r.elts) = 1 /\ ~r.comma THEN Parsed(r.elts[1], r.pos)
           ELSE Parsed(Tuple(r.elts), r.pos)
      [] c = "[" ->
           LET r == ParseElts(s, j + 1, "]", <<>>, FALSE) IN
           IF ~r.ok THEN SyntaxError ELSE Parsed(List(r.elts), r.pos)
      [] c = "{" ->
           LET k == SkipSpaces(s, j + 1) IN
           IF At(s, k) = "}" THEN Parsed(Dict(<<>>, <<>>), k + 1)
           ELSE LET first == ParseExpr(s, k) IN
                IF ~first.ok THEN SyntaxError
                ELSE LET m == SkipSpaces(s, first.pos) IN
                     IF At(s, m) = ":"
                     THEN LET value == ParseExpr(s, m + 1) IN
                          IF ~value.ok THEN SyntaxError
                          ELSE ParsePairs(s, value.pos, <<first.node>>, <<value.node>>)
                     ELSE LET r == ParseAfterElt(s, first.pos, "}", <<first.node>>, FALSE) IN
                          IF ~r.ok THEN SyntaxError ELSE Parsed(Set(r.elts), r.pos)
      [] c \in {"'", "\""} ->
           LET e == ScanTo(s, j + 1, c) IN
           IF e > Len(s) THEN SyntaxError
           ELSE Parsed(Constant(PyStr(SubSeq(s, j + 1, e - 1))), e + 1)
      [] c \in DigitChars ->
           LET e == ScanWhile(s, j, DigitChars) IN
           Parsed(Constant(PyInt(DigitsValue(SubSeq(s, j, e - 1)))), e)
      [] c \in Letters ->
           LET e == ScanWhile(s, j, Letters \cup DigitChars)
               word == SubSeq(s, j, e - 1)
           IN IF word = S_none THEN Parsed(Constant(PyNone), e) ELSE Parsed(Name(word), e)
      [] c = "-" ->
           LET operand == ParseExpr(s, j + 1) IN
           IF ~operand.ok THEN SyntaxError
           ELSE Parsed(UnaryOp(Op("USub"), operand.node), operand.pos)
      [] OTHER -> SyntaxError

\* ast.parse(text, mode="eval").body: the whole text is one expression.
Parse(s) ==
    LET r == ParseExpr(s, 1) IN
    IF r.ok /\ SkipSpaces(s, r.pos) = Len(s) + 1 THEN [ok |-> TRUE, node |-> r.node]
    ELSE SyntaxError

-----------------------------------------------------------------------------
(* The literal-only expressions given to the round trip *)

\* The largest number of nodes of an input expression.
MaxSize == 4

LiteralAtoms == {Constant(PyInt(1)), Constant(PyStr(<<"a">>))}

RECURSIVE LiteralsOfSize(_)
RECURSIVE LiteralSeqsOfSize(_)
RECURSIVE LiteralPairsOfSize(_)

\* The sequences of literal expressions with n nodes in all.
LiteralSeqsOfSize(n) ==
    IF n = 0 THEN {<<>>}
    ELSE UNION {{<<e>> \o rest : e \in LiteralsOfSize(k), rest \in LiteralSeqsOfSize(n - k)} :
                k \in 1..n}

\* The (keys, values) of dict displays with n nodes in all; a key None is
\* the key of a ** entry and counts as a node.
LiteralPairsOfSize(n) ==
    IF n = 0 THEN {[keys |-> <<>>, values |-> <<>>]}
    ELSE UNION {{[keys |-> <<k>> \o rest.keys, values |-> <<v>> \o rest.values] :
                   k \in IF kn = 1 THEN LiteralsOfSize(1) \cup {NoneNode} ELSE LiteralsOfSize(kn),
                   v \in LiteralsOfSize(vn),
                   rest \in LiteralPairsOfSize(n - kn - vn)} :
                <<kn, vn>> \in {<<a, b>> \in (1..n) \X (1..n) : a + b <= n}}

\* The literal expressions with exactly n nodes.
LiteralsOfSize(n) ==
    IF n = 0 THEN {}
    ELSE (IF n = 1 THEN LiteralAtoms ELSE {})
         \cup {List(s) : s \in LiteralSeqsOfSize(n - 1)}
         \cup {Tuple(s) : s \in LiteralSeqsOfSize(n - 1)}
         \cup {Set(s) : s \in LiteralSeqsOfSize(n - 1)}
         \cup {Dict(p.keys, p.values) : p \in LiteralPairsOfSize(n - 1)}

\* The literal expressions with at most `size` nodes.
LiteralsTo(size) == UNION {LiteralsOfSize(n) : n \in 1..size}

-----------------------------------------------------------------------------
(* The round trip of the value renderer *)

ValIdle ==
    /\ vpc = "idle"
    /\ vnode = NoneNode
    /\ vtext = KeyError("")
    /\ vparsed = SyntaxError
    /\ vtext2 = KeyError("")

ValStart ==
    /\ vpc = "input"
    /\ vnode \in LiteralsTo(MaxSize)
    /\ vtext = KeyError("")
    /\ vparsed = SyntaxError
    /\ vtext2 = KeyError("")

\* text = get_value(x)
Render ==
    /\ vpc = "input"
    /\ vtext' = get_value(vnode)
    /\ vpc' = "rendered"
    /\ UNCHANGED <<notValVars, vnode, vparsed, vtext2>>

\* y = parse(text)
Reparse ==
    /\ vpc = "rendered"
    /\ vtext.ok
    /\ vparsed' = Parse(vtext.val)
    /\ vpc' = "parsed"
    /\ UNCHANGED <<notValVars, vnode, vtext, vtext2>>

\* text2 = get_value(y)
Rerender ==
    /\ vpc = "parsed"
    /\ vparsed.ok
    /\ vtext2' = get_value(vparsed.node)
    /\ vpc' = "rerendered"
    /\ UNCHANGED <<notValVars, vnode, vtext, vparsed>>

ValStep == Render \/ Reparse \/ Rerender

\* C10: for every literal-only expression x, get_value(parse(get_value(x)))
\* is get_value(x): the text renders, parses, and renders to itself again.
C10_RoundTripIdempotent ==
    /\ vpc = "rendered" => vtext.ok
    /\ vpc = "parsed" => vparsed.ok
    /\ vpc = "rerendered" => (vtext2.ok /\ vtext2.val = vtext.val)

-----------------------------------------------------------------------------
(* Names and expressions (griffe.expressions), as the specification
   describes them.  A resolver is a closure; here it is the data the closure
   holds. *)

\* A literal fragment of an expression.
StrObj(s) == [type |-> "str", s |-> s]

\* Name(source, resolver)
NameObj(source, resolver) == [type |-> "Name", source |-> source, resolver |-> resolver]

\* Expression(*fragments): the fragments in order, a nested Expression
\* giving its own fragments.
Expression(fragments) ==
    LET RECURSIVE flat(_)
        flat(fs) == IF fs = <<>> THEN <<>>
                    ELSE (IF fs[1].type = "Expression" THEN fs[1].parts ELSE <<fs[1]>>)
                         \o flat(Tail(fs))
    IN [type |-> "Expression", parts |-> flat(fragments)]

\* Expression.full: each fragment's text in order, a Name as it is spelled.
ExpressionFull(e) ==
    LET RECURSIVE cat(_)
        cat(ps) == IF ps = <<>> THEN <<>>
                   ELSE (IF ps[1].type = "Name" THEN ps[1].source ELSE ps[1].s) \o cat(Tail(ps))
    IN cat(e.parts)

\* parent.resolve(identifier): the qualified path the parent's scope gives
\* the identifier at the time of the call.
Resolve(parent, identifier) == parent[identifier]

\* The outcome of an extraction: the value, and the calls of parent.resolve
\* made on the way.
Extracted(v, calls) == [ok |-> TRUE, val |-> v, calls |-> calls]

\* The calls of parent.resolve made by the calls rs, in order.
RECURSIVE CallsOf(_)
CallsOf(rs) == IF rs = <<>> THEN <<>> ELSE rs[1].calls \o CallsOf(Tail(rs))

BuildExtracted(rs, v) == IF AllOk(rs) THEN Extracted(v, CallsOf(rs)) ELSE FirstRaised(rs)

\* _join(sequence, item): node_utils.py:59-65
_join(sequence, item) ==
    IF sequence = <<>> THEN <<>>
    ELSE [i \in 1..(2 * Len(sequence) - 1) |->
            IF i % 2 = 1 THEN sequence[(i + 1) \div 2] ELSE item]

-----------------------------------------------------------------------------
(* Base classes: node_utils.py:70-107 *)

RECURSIVE get_baseclass(_, _)

\* A variant that resolves the identifier during the extraction.
_get_baseclass_name_eager(node, parent) ==
    Extracted(NameObj(node.id, [kind |-> "resolved", full |-> Resolve(parent, node.id)]),
              <<node.id>>)

\* Name(node.id, partial(parent.resolve, node.id))
_get_baseclass_name(node, parent) ==
    Extracted(NameObj(node.id, [kind |-> "partial", arg |-> node.id]), <<>>)

\* The resolver of the attribute's Name is the closure over left and
\* node.attr that returns f"{left.full}.{node.attr}".
_get_baseclass_attribute(node, parent) ==
    LET rs == <<get_baseclass(node.value, parent)>>
        left == rs[1].val
        right == NameObj(node.attr, [kind |-> "attribute", left |-> left, attr |-> node.attr])
    IN BuildExtracted(rs, Expression(<<left, StrObj(<<".">>), right>>))

_get_baseclass_subscript(node, parent) ==
    LET rs == <<get_baseclass(node.value, parent), get_baseclass(node.slice, parent)>>
    IN BuildExtracted(rs, Expression(<<rs[1].val, StrObj(<<"[">>), rs[2].val, StrObj(<<"]">>)>>))

_node_baseclass_map == {"Name", "Attribute", "Subscript"}

BaseclassHandler(kind, node, parent) ==
    CASE kind = "Name" -> _get_baseclass_name(node, parent)
      [] kind = "Attribute" -> _get_baseclass_attribute(node, parent)
      [] kind = "Subscript" -> _get_baseclass_subscript(node, parent)

\* _node_baseclass_map[type(node)](node, parent)
get_baseclass(node, parent) ==
    IF node.kind \in _node_baseclass_map
    THEN BaseclassHandler(node.kind, node, parent)
    ELSE KeyError(node.kind)

-----------------------------------------------------------------------------
(* Annotations: node_utils.py:112-190 *)

RECURSIVE get_annotation(_, _)

_get_name_annotation(node, parent) ==
    Extracted(NameObj(node.id, [kind |-> "partial", arg |-> node.id]), <<>>)

_get_constant_annotation(node, parent) == Extracted(StrObj(Repr(node.value)), <<>>)

_get_attribute_annotation(node, parent) ==
    LET rs == <<get_annotation(node.value, parent)>>
        left == rs[1].val
        right == NameObj(node.attr, [kind |-> "attribute", left |-> left, attr |-> node.attr])
    IN BuildExtracted(rs, Expression(<<left, StrObj(<<".">>), right>>))

_get_binop_annotation(node, parent) ==
    LET rs == <<get_annotation(node.left, parent), get_annotation(node.right, parent),
                get_annotation(node.op, parent)>>
    IN BuildExtracted(rs, Expression(<<rs[1].val, rs[3].val, rs[2].val>>))

_get_bitor_annotation(node, parent) == Extracted(StrObj(<<" ", "|", " ">>), <<>>)

_get_bitand_annotation(node, parent) == Extracted(StrObj(<<" ", "&", " ">>), <<>>)

_get_subscript_annotation(node, parent) ==
    LET rs == <<get_annotation(node.value, parent), get_annotation(node.slice, parent)>>
    IN BuildExtracted(rs, Expression(<<rs[1].val, StrObj(<<"[">>), rs[2].val, StrObj(<<"]">>)>>))

_get_tuple_annotation(node, parent) ==
    LET rs == [i \in 1..Len(node.elts) |-> get_annotation(node.elts[i], parent)]
    IN BuildExtracted(rs, Expression(_join(Vals(rs), StrObj(S_comma))))

_get_list_annotation(node, parent) ==
    LET rs == [i \in 1..Len(node.elts) |-> get_annotation(node.elts[i], parent)]
    IN BuildExtracted(rs, Expression(<<StrObj(<<"[">>)>> \o _join(Vals(rs), StrObj(S_comma))
                                      \o <<StrObj(<<"]">>)>>))

\* The keys of _node_annotation_map on Python 3.9 and later.
_node_annotation_map ==
    {"Name", "Constant", "Attribute", "BinOp", "BitOr", "BitAnd", "Subscript", "Tuple", "List"}

AnnotationHandler(kind, node, parent) ==
    CASE kind = "Name" -> _get_name_annotation(node, parent)
      [] kind = "Constant" -> _get_constant_annotation(node, parent)
      [] kind = "Attribute" -> _get_attribute_annotation(node, parent)
      [] kind = "BinOp" -> _get_binop_annotation(node, parent)
      [] kind = "BitOr" -> _get_bitor_annotation(node, parent)
      [] kind = "BitAnd" -> _get_bitand_annotation(node, parent)
      [] kind = "Subscript" -> _get_subscript_annotation(node, parent)
      [] kind = "Tuple" -> _get_tuple_annotation(node, parent)
      [] kind = "List" -> _get_list_annotation(node, parent)

\* _node_annotation_map[type(node)](node, parent)
get_annotation(node, parent) ==
    IF node.kind \in _node_annotation_map
    THEN AnnotationHandler(node.kind, node, parent)
    ELSE KeyError(node.kind)

-----------------------------------------------------------------------------
(* Names of assignment targets: node_utils.py:455-478 *)

RECURSIVE get_name(_)

_get_attribute_name(node) ==
    LET rs == <<get_name(node.value)>>
    IN Build(rs, rs[1].val \o <<".">> \o node.attr)

_get_name_name(node) == Ok(node.id)

_node_name_map == {"Name", "Attribute"}

NameHandler(kind, node) ==
    CASE kind = "Name" -> _get_name_name(node)
      [] kind = "Attribute" -> _get_attribute_name(node)

\* _node_name_map[type(node)](node)
get_name(node) ==
    IF node.kind \in _node_name_map
    THEN NameHandler(node.kind, node)
    ELSE KeyError(node.kind)

-----------------------------------------------------------------------------
(* The four dispatch functions on nodes of registered and unregistered
   kinds *)

\* How many times an input node is wrapped in a further node.
WrapDepth == 1

idA == <<"a">>
idB == <<"b">>

\* ast.Await: a class that is a key of no table.
Await(value) == [kind |-> "Await", value |-> value]

\* A node of a class derived from ast.Name: isinstance(node, ast.Name) holds
\* and type(node) is not ast.Name.
NameSubclass(id) == [kind |-> "NameSubclass", id |-> id]

DispatchLeaves == {Name(idA), Constant(PyInt(1)), Await(Name(idA)), NameSubclass(idA)}

\* The nodes of every kind with leaves as children.
DispatchFlat ==
    LET L == DispatchLeaves
        O == {NoneNode, Name(idA), Await(Name(idA))}
        comp == {Comprehension(Name(idA), it, ifs, async) :
                   it \in L, ifs \in {<<>>} \cup {<<c>> : c \in {Name(idB), Await(Name(idA))}},
                   async \in BOOLEAN}
    IN  L \cup {NoneNode, Op("Ellipsis")}
        \cup {Attribute(x, idB) : x \in L}
        \cup {Subscript(x, y) : x \in L, y \in L}
        \cup {BinOp(x, Op(o), y) : x \in L, y \in L, o \in {"BitOr", "BitAnd", "Mult", "Add"}}
        \cup {UnaryOp(Op(o), x) : x \in L, o \in {"USub", "UAdd", "Not", "Invert"}}
        \cup {BoolOp(Op(o), <<x, y>>) : x \in L, y \in L, o \in {"Or", "And"}}
        \cup {Compare(x, <<Op(o)>>, <<y>>) : x \in L, y \in L, o \in {"NotEq", "Eq"}}
        \cup {List(<<x, y>>) : x \in L, y \in L}
        \cup {Tuple(<<x, y>>) : x \in L, y \in L}
        \cup {Set(<<x, y>>) : x \in L, y \in L}
        \cup {Dict(<<k>>, <<v>>) : k \in L \cup {NoneNode}, v \in L}
        \cup {Call(f, <<x>>, <<Keyword(PyStr(idB), y)>>) : f \in L, x \in L, y \in L}
        \cup {Call(Name(idA), <<>>, <<Keyword(PyNone, y)>>) : y \in L}
        \cup {SliceNode(l, u, s) : l \in O, u \in O, s \in O}
        \cup {Starred(x) : x \in L}
        \cup {JoinedStr(<<Constant(PyStr(idB)), FormattedValue(x)>>) : x \in L}
        \cup {IfExp(x, y, z) : x \in L, y \in L, z \in L}
        \cup {Lambda(Arguments(<<Arg(idA), Arg(idB)>>), x) : x \in L}
        \cup {Lambda(y, Name(idA)) : y \in L}
        \cup comp
        \cup {GeneratorExp(x, <<c>>) : x \in L, c \in comp}
        \cup {ListComp(x, <<c>>) : x \in {Name(idA), Await(Name(idA))}, c \in comp}
        \cup {DictComp(x, y, <<Comprehension(Name(idA), Name(idB), <<>>, FALSE)>>) :
                x \in L, y \in L}

\* A node around n, for each way of nesting in which a table has a handler.
Wrappers(n) ==
    {Attribute(n, idB), Subscript(Name(idA), n), Subscript(n, Name(idA)),
     BinOp(Name(idA), Op("BitOr"), n), Tuple(<<n>>), List(<<Name(idA), n>>), Starred(n)}

RECURSIVE DispatchNodesTo(_)
DispatchNodesTo(depth) ==
    IF depth = 0 THEN DispatchFlat
    ELSE DispatchNodesTo(depth - 1) \cup UNION {Wrappers(n) : n \in DispatchNodesTo(depth - 1)}

\* The parent the dispatch functions are given: a scope for the identifiers.
SomeParent == [i \in {idA, idB} |-> <<"m", ".">> \o i]

DispIdle ==
    /\ dpc = "idle"
    /\ dnode = NoneNode
    /\ dfn = ""
    /\ dresult = KeyError("")

DispStart ==
    /\ dpc = "input"
    /\ dnode \in DispatchNodesTo(WrapDepth)
    /\ dfn = ""
    /\ dresult = KeyError("")

CallGetBaseclass ==
    /\ dpc = "input"
    /\ dresult' = get_baseclass(dnode, SomeParent)
    /\ dfn' = "get_baseclass"
    /\ dpc' = "called"
    /\ UNCHANGED <<notDispVars, dnode>>

CallGetAnnotation ==
    /\ dpc = "input"
    /\ dresult' = get_annotation(dnode, SomeParent)
    /\ dfn' = "get_annotation"
    /\ dpc' = "called"
    /\ UNCHANGED <<notDispVars, dnode>>

CallGetValue ==
    /\ dpc = "input"
    /\ dresult' = get_value(dnode)
    /\ dfn' = "get_value"
    /\ dpc' = "called"
    /\ UNCHANGED <<notDispVars, dnode>>

CallGetName ==
    /\ dpc = "input"
    /\ dresult' = get_name(dnode)
    /\ dfn' = "get_name"
    /\ dpc' = "called"
    /\ UNCHANGED <<notDispVars, dnode>>

DispStep == CallGetBaseclass \/ CallGetAnnotation \/ CallGetValue \/ CallGetName

-----------------------------------------------------------------------------
(* Property of the dispatch functions *)

\* The keys of the table of a dispatch function.
TableOf(fn) ==
    CASE fn = "get_baseclass" -> _node_baseclass_map
      [] fn = "get_annotation" -> _node_annotation_map
      [] fn = "get_value" -> _node_value_map
      [] fn = "get_name" -> _node_name_map

SeqRange(s) == {s[i] : i \in 1..Len(s)}

\* The children of a node of a registered kind that the handler of fn for
\* that kind gives to fn again.
RecursedChildren(fn, n) ==
    LET k == n.kind
        opt(c) == IF Truthy(c) THEN {c} ELSE {}
    IN
    IF k \notin TableOf(fn) THEN {}
    ELSE CASE fn = "get_name" -> IF k = "Attribute" THEN {n.value} ELSE {}
           [] fn = "get_baseclass" ->
                 CASE k = "Attribute" -> {n.value}
                   [] k = "Subscript" -> {n.value, n.slice}
                   [] OTHER -> {}
           [] fn = "get_annotation" ->
                 CASE k = "Attribute" -> {n.value}
                   [] k = "BinOp" -> {n.left, n.op, n.right}
                   [] k = "Subscript" -> {n.value, n.slice}
                   [] k \in {"Tuple", "List"} -> SeqRange(n.elts)
                   [] OTHER -> {}
           [] fn = "get_value" ->
                 CASE k \in {"Attribute", "Starred", "FormattedValue", "keyword"} -> {n.value}
                   [] k = "BinOp" -> {n.left, n.op, n.right}
                   [] k = "UnaryOp" -> {n.op, n.operand}
                   [] k = "BoolOp" -> {n.op} \cup SeqRange(n.values)
                   [] k = "Compare" -> {n.left} \cup SeqRange(n.ops) \cup SeqRange(n.comparators)
                   [] k = "Subscript" -> {n.value, n.slice}
                   [] k \in {"List", "Tuple", "Set"} -> SeqRange(n.elts)
                   [] k = "Dict" -> UNION {opt(c) : c \in SeqRange(n.keys)} \cup SeqRange(n.values)
                   [] k = "JoinedStr" -> SeqRange(n.values)
                   [] k = "Call" -> {n.func} \cup SeqRange(n.args) \cup SeqRange(n.keywords)
                   [] k = "Slice" -> opt(n.lower) \cup opt(n.upper) \cup opt(n.step)
                   [] k = "IfExp" -> {n.test, n.body, n.orelse}
                   [] k = "Lambda" -> {n.args, n.body}
                   [] k = "comprehension" -> {n.target, n.iter} \cup SeqRange(n.ifs)
                   [] k \in {"GeneratorExp", "ListComp"} -> {n.elt} \cup SeqRange(n.generators)
                   [] k = "DictComp" -> {n.key, n.value} \cup SeqRange(n.generators)
                   [] OTHER -> {}

\* The nodes fn is called on when it is called on n: n, and the children
\* the handlers recurse into.
RECURSIVE Reached(_, _)
Reached(fn, n) == {n} \cup UNION {Reached(fn, c) : c \in RecursedChildren(fn, n)}

\* The nodes of an unregistered kind among them.
Unregistered(fn, n) == {m \in Reached(fn, n) : m.kind \notin TableOf(fn)}

\* C6: a call of a dispatch function on a node of an unregistered kind
\* raises KeyError for that kind; a call that reaches a node of an
\* unregistered kind by recursion raises the KeyError of such a node; and a
\* call returns a value only when every node reached is of a registered
\* kind.  A node of a subclass of a registered class is not registered.
C6_UnregisteredKindRaises ==
    dpc = "called" =>
        /\ dnode.kind \notin TableOf(dfn) => dresult = KeyError(dnode.kind)
        /\ Unregistered(dfn, dnode) # {} =>
              /\ ~dresult.ok
              /\ dresult.exc = "KeyError"
              /\ dresult.key \in {m.kind : m \in Unregistered(dfn, dnode)}
        /\ dresult.ok => Unregistered(dfn, dnode) = {}
        /\ dnode.kind = "NameSubclass" => dresult = KeyError("NameSubclass")

\* get_value was called on a node of a registered kind whose children are of
\* registered kinds, and raised the KeyError of a node further down.
C6_Witness ==
    /\ dpc = "called"
    /\ dfn = "get_value"
    /\ dnode.kind \in TableOf(dfn)
    /\ \A c \in RecursedChildren(dfn, dnode) : c.kind \in TableOf(dfn)
    /\ ~dresult.ok
    /\ dresult.key = "Await"

-----------------------------------------------------------------------------
(* Lazy resolution: the resolvers that get_baseclass and get_annotation
   put into the Names they build, and a consumer that invokes them while
   the parent's scope changes. *)

RECURSIVE NameFull(_, _)

\* partial(parent.resolve, node.id)(): node_utils.py:71 and 113
PartialResolver(arg, parent) == Extracted(Resolve(parent, arg), <<arg>>)

\* The closure `resolver` of an attribute: f"{left.full}.{node.attr}",
\* node_utils.py:77-78 and 123-124.  A str has no attribute full.
AttributeResolver(left, attr, parent) ==
    CASE left.type = "Name" ->
           LET rs == <<NameFull(left, parent)>>
           IN BuildExtracted(rs, rs[1].val \o <<".">> \o attr)
      [] left.type = "Expression" -> Extracted(ExpressionFull(left) \o <<".">> \o attr, <<>>)
      [] OTHER -> [ok |-> FALSE, exc |-> "AttributeError", key |-> "full"]

\* Name.full: invokes the resolver of the Name, once, and gives what it
\* returns now.
NameFull(name, parent) ==
    CASE name.resolver.kind = "partial" -> PartialResolver(name.resolver.arg, parent)
      [] name.resolver.kind = "attribute" ->
           AttributeResolver(name.resolver.left, name.resolver.attr, parent)
      [] name.resolver.kind = "resolved" -> Extracted(name.resolver.full, <<>>)

\* The longest chain of attributes of an input node.
MaxChain == 2

Ids == {idA, idB}

\* The scopes of the parent: each identifier is defined in module m or
\* imported from package p.
Scopes == [Ids -> {<<"m">>, <<"p">>}]

QualifiedPath(sc, i) == sc[i] \o <<".">> \o i

\* The parent object with scope sc.
ParentOf(sc) == [i \in Ids |-> QualifiedPath(sc, i)]

RECURSIVE Chains(_)
Chains(n) ==
    IF n = 0 THEN {Name(i) : i \in Ids}
    ELSE Chains(n - 1) \cup {Attribute(x, i) : x \in Chains(n - 1), i \in Ids}

ResolveNodes ==
    LET short == Chains(MaxChain - 1) IN
    Chains(MaxChain)
    \cup {Subscript(x, y) : x \in short, y \in short}
    \cup {BinOp(x, Op("BitOr"), y) : x \in short, y \in short}
    \cup {Tuple(<<x, y>>) : x \in short, y \in short}
    \cup {List(<<x>>) : x \in short}
    \cup {Attribute(Subscript(x, Name(idB)), idA) : x \in short}
    \cup {Constant(PyInt(1)), Subscript(Name(idA), Constant(PyStr(idB)))}

\* The Names of an extracted value.
NamesOf(v) ==
    CASE v.type = "Name" -> {v}
      [] v.type = "Expression" -> {v.parts[i] : i \in {j \in 1..Len(v.parts) : v.parts[j].type = "Name"}}
      [] OTHER -> {}

ResIdle ==
    /\ rpc = "idle"
    /\ rnode = NoneNode
    /\ scope = [i \in Ids |-> <<"m">>]
    /\ extractScope = [i \in Ids |-> <<"m">>]
    /\ produced = KeyError("")
    /\ extractCalls = <<>>
    /\ lastName = NoneNode
    /\ lastCalls = <<>>
    /\ lastFull = KeyError("")
    /\ lastScope = [i \in Ids |-> <<"m">>]

ResStart ==
    /\ rpc = "input"
    /\ rnode \in ResolveNodes
    /\ scope \in Scopes
    /\ extractScope = scope
    /\ produced = KeyError("")
    /\ extractCalls = <<>>
    /\ lastName = NoneNode
    /\ lastCalls = <<>>
    /\ lastFull = KeyError("")
    /\ lastScope = scope

\* The state after an extraction that gave `result`.
AfterExtract(result) ==
    /\ produced' = result
    /\ extractCalls' = IF result.ok THEN result.calls ELSE <<>>
    /\ extractScope' = scope
    /\ rpc' = "extracted"
    /\ UNCHANGED <<notResVars, rnode, scope, lastName, lastCalls, lastFull, lastScope>>

\* get_baseclass(node, parent)
ExtractBaseclass ==
    /\ rpc = "input"
    /\ AfterExtract(get_baseclass(rnode, ParentOf(scope)))

\* get_annotation(node, parent)
ExtractAnnotation ==
    /\ rpc = "input"
    /\ AfterExtract(get_annotation(rnode, ParentOf(scope)))

\* The parent's scope changes: the module is still being loaded.
ScopeChange ==
    /\ rpc \in {"input", "extracted", "resolved"}
    /\ \E sc \in Scopes \ {scope} : scope' = sc
    /\ UNCHANGED <<notResVars, rpc, rnode, extractScope, produced, extractCalls, lastName,
                   lastCalls, lastFull, lastScope>>

\* A consumer invokes the resolver of a Name of the extracted value.
InvokeResolver ==
    /\ rpc \in {"extracted", "resolved"}
    /\ produced.ok
    /\ \E n \in NamesOf(produced.val) :
         LET r == NameFull(n, ParentOf(scope)) IN
         /\ lastName' = n
         /\ lastFull' = r
         /\ lastCalls' = IF r.ok THEN r.calls ELSE <<>>
         /\ lastScope' = scope
    /\ rpc' = "resolved"
    /\ UNCHANGED <<notResVars, rnode, scope, extractScope, produced, extractCalls>>

ResStep == ExtractBaseclass \/ ExtractAnnotation \/ ScopeChange \/ InvokeResolver

-----------------------------------------------------------------------------
(* Property of lazy resolution *)

\* The identifiers of the Name nodes of a node, as they are spelled.
RECURSIVE SpelledIds(_)
SpelledIds(n) ==
    CASE n.kind = "Name" -> {n.id}
      [] n.kind = "Attribute" -> SpelledIds(n.value)
      [] n.kind = "Subscript" -> SpelledIds(n.value) \cup SpelledIds(n.slice)
      [] n.kind = "BinOp" -> SpelledIds(n.left) \cup SpelledIds(n.right)
      [] n.kind \in {"Tuple", "List"} -> UNION {SpelledIds(n.elts[i]) : i \in 1..Len(n.elts)}
      [] OTHER -> {}

\* C9: the extraction makes no call of parent.resolve.  A call is made only
\* when the consumer invokes a resolver: the resolver of the Name of a bare
\* name calls resolve once, with the identifier as spelled, and returns what
\* the scope gives it at that time; the resolver of an attribute Name built
\* on such a Name calls resolve once, with that Name's identifier, and
\* returns that path, a dot and the attribute.
C9_ResolveOnlyOnDemand ==
    /\ rpc \in {"extracted", "resolved"} => extractCalls = <<>>
    /\ rpc = "extracted" => lastCalls = <<>>
    /\ rpc = "resolved" =>
          /\ lastFull.ok
          /\ \A i \in 1..Len(lastCalls) : lastCalls[i] \in SpelledIds(rnode)
          /\ lastName.resolver.kind \in {"partial", "attribute"}
          /\ lastName.resolver.kind = "partial" =>
                /\ lastCalls = <<lastName.source>>
                /\ lastFull.val = QualifiedPath(lastScope, lastName.source)
          /\ (lastName.resolver.kind = "attribute" /\ lastName.resolver.left.type = "Name") =>
                /\ lastCalls = <<lastName.resolver.left.source>>
                /\ lastFull.val = QualifiedPath(lastScope, lastName.resolver.left.source)
                                    \o <<".">> \o lastName.source

\* The scope changed after the extraction, and the resolver of an attribute
\* Name gave the path of the scope as it was at the call.
C9_Witness ==
    /\ rpc = "resolved"
    /\ lastScope # extractScope
    /\ lastName.resolver.kind = "attribute"
    /\ lastName.resolver.left.type = "Name"
    /\ lastFull.ok
    /\ lastFull.val # QualifiedPath(extractScope, lastName.resolver.left.source)
                        \o <<".">> \o lastName.source

-----------------------------------------------------------------------------
(* Docstrings: node_utils.py:195-219 *)

\* Expression nodes with the line span the parser gives them.
ConstantAt(v, lineno, end_lineno) ==
    [kind |-> "Constant", value |-> v, lineno |-> lineno, end_lineno |-> end_lineno]
NameAt(id, lineno) == [kind |-> "Name", id |-> id, lineno |-> lineno, end_lineno |-> lineno]
JoinedStrAt(lineno) == [kind |-> "JoinedStr", values |-> <<>>, lineno |-> lineno, end_lineno |-> lineno]

\* Statements, and the nodes that hold a body of statements.
Expr(value) == [kind |-> "Expr", value |-> value]
Pass == [kind |-> "Pass"]
Assign(targets, value) == [kind |-> "Assign", targets |-> targets, value |-> value]
Module(body) == [kind |-> "Module", body |-> body]
ClassDef(body) == [kind |-> "ClassDef", body |-> body]
FunctionDef(body) == [kind |-> "FunctionDef", body |-> body]

\* The classes whose nodes have an attribute body.
HasBody(kind) == kind \in {"Module", "ClassDef", "FunctionDef"}

\* (None, None, None)
NoDocstring == [text |-> PyNone, lineno |-> PyNone, end_lineno |-> PyNone]

\* isinstance(doc, NodeStr): ast.Str is the deprecated alias whose instances
\* are the Constant nodes with a str value, and doc.s is that value.
IsNodeStr(doc) == doc.kind = "Constant" /\ doc.value.t = "str"

\* The two tests of the candidate: node_utils.py:215-219
DocstringOf(doc) ==
    IF doc.kind = "Constant" /\ doc.value.t = "str"
    THEN Ok([text |-> doc.value, lineno |-> PyInt(doc.lineno), end_lineno |-> PyInt(doc.end_lineno)])
    ELSE IF IsNodeStr(doc)
    THEN Ok([text |-> doc.value, lineno |-> PyInt(doc.lineno), end_lineno |-> PyInt(doc.end_lineno)])
    ELSE Ok(NoDocstring)

\* A variant that searches the body whatever strict is.
get_docstring_ignoring_strict(node, strict) ==
    IF node.kind = "Expr" THEN DocstringOf(node.value)
    ELSE IF ~HasBody(node.kind) THEN [ok |-> FALSE, exc |-> "AttributeError", key |-> "body"]
    ELSE IF node.body # <<>> /\ node.body[1].kind = "Expr"
    THEN DocstringOf(node.body[1].value)
    ELSE Ok(NoDocstring)

\* get_docstring(node, strict).  node.body is read before strict is tested: a
\* node without a body raises AttributeError.
get_docstring(node, strict) ==
    IF node.kind = "Expr" THEN DocstringOf(node.value)
    ELSE IF ~HasBody(node.kind) THEN [ok |-> FALSE, exc |-> "AttributeError", key |-> "body"]
    ELSE IF node.body # <<>> /\ node.body[1].kind = "Expr" /\ ~strict
    THEN DocstringOf(node.body[1].value)
    ELSE Ok(NoDocstring)

\* The largest number of statements of a body.
MaxBody == 2

DocText == <<"D", "o", "c", ".">>

DocValues ==
    {ConstantAt(PyStr(DocText), 2, 2), ConstantAt(PyStr(DocText), 2, 4),
     ConstantAt(PyStr(<<>>), 3, 3), ConstantAt(PyInt(1), 2, 2), ConstantAt(PyNone, 2, 2),
     NameAt(idA, 2), JoinedStrAt(2)}

DocStatements == {Expr(v) : v \in DocValues} \cup {Pass, Assign(<<Name(idA)>>, Constant(PyInt(1)))}

DocBodies == UNION {[1..n -> DocStatements] : n \in 0..MaxBody}

DocNodes ==
    {Expr(v) : v \in DocValues}
    \cup {Module(b) : b \in DocBodies}
    \cup {ClassDef(b) : b \in DocBodies}
    \cup {FunctionDef(b) : b \in DocBodies}
    \cup {Pass, Assign(<<Name(idA)>>, Constant(PyInt(1)))}

DocIdle ==
    /\ docpc = "idle"
    /\ docNode = NoneNode
    /\ docStrict = FALSE
    /\ docResult = KeyError("")

DocStart ==
    /\ docpc = "input"
    /\ docNode \in DocNodes
    /\ docStrict \in BOOLEAN
    /\ docResult = KeyError("")

CallGetDocstring ==
    /\ docpc = "input"
    /\ docResult' = get_docstring(docNode, docStrict)
    /\ docpc' = "called"
    /\ UNCHANGED <<notDocVars, docNode, docStrict>>

DocStep == CallGetDocstring

\* The candidate docstring expression, as a sequence of at most
\* one node.
DocCandidate(node, strict) ==
    IF node.kind = "Expr" THEN <<node.value>>
    ELSE IF ~strict /\ Len(node.body) > 0 /\ node.body[1].kind = "Expr" THEN <<node.body[1].value>>
    ELSE <<>>

\* C7: on a module, class, function or expression statement get_docstring
\* does not raise; it returns the text and the line span of the candidate
\* when there is one and it is a string literal, and (None, None, None)
\* otherwise; with strict on a node that is no expression statement it
\* returns (None, None, None).
C7_DocstringRule ==
    (docpc = "called" /\ docNode.kind \in {"Module", "ClassDef", "FunctionDef", "Expr"}) =>
        LET c == DocCandidate(docNode, docStrict) IN
        /\ docResult.ok
        /\ (c # <<>> /\ c[1].kind = "Constant" /\ c[1].value.t = "str") =>
              docResult.val = [text |-> c[1].value, lineno |-> PyInt(c[1].lineno),
                               end_lineno |-> PyInt(c[1].end_lineno)]
        /\ ~(c # <<>> /\ c[1].kind = "Constant" /\ c[1].value.t = "str") =>
              docResult.val = NoDocstring
        /\ (docStrict /\ docNode.kind # "Expr") => docResult.val = NoDocstring

\* strict=True on a function whose body starts with a string literal: the
\* body is not searched.
C7_Witness ==
    /\ docpc = "called"
    /\ docStrict
    /\ docNode.kind = "FunctionDef"
    /\ Len(docNode.body) > 0
    /\ docNode.body[1].kind = "Expr"
    /\ docNode.body[1].value.kind = "Constant"
    /\ docNode.body[1].value.value.t = "str"
    /\ docResult = Ok(NoDocstring)

(* Parameter defaults: node_utils.py:523-544 *)

\* An expression node with the position the parser gives it: lineno and
\* end_lineno count from 1, col_offset and end_col_offset from 0.
Position(lineno, col_offset, end_lineno, end_col_offset) ==
    [lineno |-> lineno, col_offset |-> col_offset,
     end_lineno |-> end_lineno, end_col_offset |-> end_col_offset]
ConstantDefault(value, p) ==
    [kind |-> "Constant", value |-> value, lineno |-> p.lineno, col_offset |-> p.col_offset,
     end_lineno |-> p.end_lineno, end_col_offset |-> p.end_col_offset]
NameDefault(id, p) ==
    [kind |-> "Name", id |-> id, lineno |-> p.lineno, col_offset |-> p.col_offset,
     end_lineno |-> p.end_lineno, end_col_offset |-> p.end_col_offset]
OtherDefault(kind, p) ==
    [kind |-> kind, lineno |-> p.lineno, col_offset |-> p.col_offset,
     end_lineno |-> p.end_lineno, end_col_offset |-> p.end_col_offset]

\* The outcome of a call with the 0-based indexes of the lines it read from
\* lines_collection[filepath].
Returned(v, reads) == [ok |-> TRUE, val |-> v, reads |-> reads]
IndexError(reads) == [ok |-> FALSE, exc |-> "IndexError", reads |-> reads]

\* lines[i][a:b] for a 0-based i: list indexing raises IndexError past the
\* end, slicing does not.
LineSlice(lines, i, a, b) ==
    IF i >= Len(lines) THEN IndexError(<<i>>)
    ELSE Returned(PyStr(Slice(lines[i + 1], a, b)), <<i>>)

\* A variant that slices the source line before it looks at the class of
\* the node.
get_parameter_default_source_first(node, lines) ==
    IF node.kind = "NoneType" THEN Returned(PyNone, <<>>)
    ELSE IF node.lineno = node.end_lineno
    THEN LineSlice(lines, node.lineno - 1, node.col_offset, node.end_col_offset)
    ELSE IF node.kind = "Constant" THEN Returned(PyStr(Repr(node.value)), <<>>)
    ELSE IF node.kind = "Name" THEN Returned(PyStr(node.id), <<>>)
    ELSE Returned(PyNone, <<>>)

\* get_parameter_default(node, filepath, lines_collection), with lines for
\* lines_collection[filepath].
get_parameter_default(node, lines) ==
    IF node.kind = "NoneType" THEN Returned(PyNone, <<>>)
    ELSE IF node.kind = "Constant" THEN Returned(PyStr(Repr(node.value)), <<>>)
    ELSE IF node.kind = "Name" THEN Returned(PyStr(node.id), <<>>)
    ELSE IF node.lineno = node.end_lineno
    THEN LineSlice(lines, node.lineno - 1, node.col_offset, node.end_col_offset)
    ELSE Returned(PyNone, <<>>)

\* The largest line number and the largest column offset of a node.
MaxLine == 2
MaxCol == 12

\* x: int = 1+1  # comment
SourceLine ==
    <<"x", ":", " ", "i", "n", "t", " ", "=", " ", "1", "+", "1", " ", " ",
      "#", " ", "c", "o", "m", "m", "e", "n", "t">>

\* Files of one and of two lines.
DefaultFiles == {<<SourceLine>>, <<<<"d", "e", "f", " ", "f", "(">>, SourceLine>>}

DefaultPositions ==
    {Position(l, c, e, d) : l \in 1..MaxLine, c \in 0..MaxCol, e \in 1..MaxLine, d \in 0..MaxCol}

\* The parser's positions: a node ends after it starts.
WellFormed(p) ==
    \/ p.lineno < p.end_lineno
    \/ p.lineno = p.end_lineno /\ p.col_offset < p.end_col_offset

DefaultNodes ==
    {NoneNode}
    \cup UNION {{ConstantDefault(PyInt(1), p), ConstantDefault(PyStr(idA), p), NameDefault(idA, p),
                 OtherDefault("BinOp", p), OtherDefault("Call", p)} :
                p \in {q \in DefaultPositions : WellFormed(q)}}

DefIdle ==
    /\ defpc = "idle"
    /\ defNode = NoneNode
    /\ defLines = <<>>
    /\ defResult = KeyError("")

DefStart ==
    /\ defpc = "input"
    /\ defNode \in DefaultNodes
    /\ defLines \in DefaultFiles
    /\ defResult = KeyError("")

CallGetParameterDefault ==
    /\ defpc = "input"
    /\ defResult' = get_parameter_default(defNode, defLines)
    /\ defpc' = "called"
    /\ UNCHANGED <<notDefVars, defNode, defLines>>

DefStep == CallGetParameterDefault

\* text is the characters of line from the 0-based column a up to but
\* excluding b.
IsColumns(text, line, a, b) ==
    /\ \A i \in 1..Len(text) : a + i <= b /\ a + i <= Len(line) /\ text[i] = line[a + i]
    /\ \A k \in (a + 1)..b : k <= Len(line) => k - a <= Len(text)

\* C8: get_parameter_default returns the first of: None for no node, the
\* repr of a constant's value, the identifier of a name, the columns
\* col_offset..end_col_offset of line lineno-1 for another node on one
\* line, None for a node on several lines; it reads a line of the file only
\* in the fourth case.
C8_DefaultRuleOrder ==
    defpc = "called" =>
        LET n == defNode
            r == defResult
        IN CASE n.kind = "NoneType" -> r = Returned(PyNone, <<>>)
             [] n.kind = "Constant" -> r = Returned(PyStr(Repr(n.value)), <<>>)
             [] n.kind = "Name" -> r = Returned(PyStr(n.id), <<>>)
             [] OTHER ->
                  IF n.lineno = n.end_lineno
                  THEN /\ r.reads = <<n.lineno - 1>>
                       /\ n.lineno <= Len(defLines) =>
                            /\ r.ok
                            /\ r.val.t = "str"
                            /\ IsColumns(r.val.s, defLines[n.lineno], n.col_offset, n.end_col_offset)
                  ELSE r = Returned(PyNone, <<>>)

\* The default 1+1 of  x: int = 1+1  # comment  gives "1+1".
C8_Witness ==
    /\ defpc = "called"
    /\ defNode.kind = "BinOp"
    /\ defNode.lineno = defNode.end_lineno
    /\ defNode.lineno <= Len(defLines)
    /\ defLines[defNode.lineno] = SourceLine
    /\ defNode.col_offset = 9
    /\ defNode.end_col_offset = 12
    /\ defResult = Returned(PyStr(<<"1", "+", "1">>), <<defNode.lineno - 1>>)

-----------------------------------------------------------------------------
(* Subscripts in the value renderer: node_utils.py:271-272 *)

\* The largest number of elements of a tuple in a slice.
MaxElts == 2

\* Slices without parentheses of their own, and calls.
SliceAtoms ==
    {Name(idA), Constant(PyInt(1)), Call(Name(idB), <<>>, <<>>), Call(Name(idB), <<Name(idA)>>, <<>>)}

\* The tuples of up to n elements taken from elts.
TuplesOf(elts, n) == {Tuple(s) : s \in UNION {[1..k -> elts] : k \in 0..n}}

\* The slices of the subscripts rendered: atoms, tuples of atoms, tuples that
\* hold a tuple, and expressions that end in a call.
SubscriptSlices(n) ==
    SliceAtoms
    \cup TuplesOf(SliceAtoms \cup {Tuple(<<Name(idA), Name(idB)>>)}, n)
    \cup {Attribute(a, idB) : a \in SliceAtoms}
    \cup {BinOp(Name(idA), Op("BitOr"), a) : a \in SliceAtoms}
    \cup {SliceNode(NoneNode, a, NoneNode) : a \in SliceAtoms}

SubscriptNodes(n) ==
    {Subscript(v, s) : v \in {Name(idA), Call(Name(idB), <<>>, <<>>)}, s \in SubscriptSlices(n)}

SubStart ==
    /\ vpc = "input"
    /\ vnode \in SubscriptNodes(MaxElts)
    /\ vtext = KeyError("")
    /\ vparsed = SyntaxError
    /\ vtext2 = KeyError("")

\* The number of parentheses open after the first i characters of text.
RECURSIVE ParenDepth(_, _)
ParenDepth(text, i) ==
    IF i = 0 THEN 0
    ELSE ParenDepth(text, i - 1)
         + (IF text[i] = "(" THEN 1 ELSE IF text[i] = ")" THEN 0 - 1 ELSE 0)

\* The first and last characters of text are one pair of parentheses around
\* all of it.
WrapsWhole(text) ==
    /\ Len(text) >= 2
    /\ text[1] = "("
    /\ text[Len(text)] = ")"
    /\ \A i \in 1..(Len(text) - 1) : ParenDepth(text, i) > 0

\* text without the pair of parentheses that wraps all of it, if any.
Unwrapped(text) == IF WrapsWhole(text) THEN SubSeq(text, 2, Len(text) - 1) ELSE text

\* C11: a subscript renders as the rendering of its value, "[", the
\* rendering of its slice without the one pair of parentheses that wraps
\* all of it (unchanged when no pair does), and "]".
C11_SubscriptStripsWrappingOnly ==
    vpc = "rendered" =>
        /\ vtext.ok
        /\ vtext.val = get_value(vnode.value).val \o <<"[">>
                       \o Unwrapped(get_value(vnode.slice).val) \o <<"]">>

-----------------------------------------------------------------------------
(* Specifications *)

\* The worktree manager: acquisitions of tmp_worktree on one repository.
WtInit == WtStart /\ ValIdle /\ DispIdle /\ ResIdle /\ DocIdle /\ DefIdle
WtNext == WtStep
SpecWorktree == WtInit /\ [][WtNext]_vars

\* The four dispatch functions, each called on one node.
DispInit == DispStart /\ WtIdle /\ ValIdle /\ ResIdle /\ DocIdle /\ DefIdle
DispNext == DispStep
SpecDispatch == DispInit /\ [][DispNext]_vars

\* Extraction of base classes and annotations, and the later resolution of
\* their Names.
ResInit == ResStart /\ WtIdle /\ ValIdle /\ DispIdle /\ DocIdle /\ DefIdle
ResNext == ResStep
SpecResolve == ResInit /\ [][ResNext]_vars

\* get_docstring called on one node.
DocInit == DocStart /\ WtIdle /\ ValIdle /\ DispIdle /\ ResIdle /\ DefIdle
DocNext == DocStep
SpecDocstring == DocInit /\ [][DocNext]_vars

\* get_parameter_default called on one node of one file.
DefInit == DefStart /\ WtIdle /\ ValIdle /\ DispIdle /\ ResIdle /\ DocIdle
DefNext == DefStep
SpecDefault == DefInit /\ [][DefNext]_vars

\* The round trip of get_value on literal expressions.
ValInit == ValStart /\ WtIdle /\ DispIdle /\ ResIdle /\ DocIdle /\ DefIdle
ValNext == ValStep
SpecValue == ValInit /\ [][ValNext]_vars

\* get_value called on one subscript.
SubInit == SubStart /\ WtIdle /\ DispIdle /\ ResIdle /\ DocIdle /\ DefIdle
SubNext == Render
SpecSubscript == SubInit /\ [][SubNext]_vars

====
